---- MODULE Spec2Model ----
(***************************************************************************)
(* Model of the claim-metrics handlers of capital-claims-zip2-api.         *)
(*                                                                         *)
(*   pgRaw     src/unnamed/part_000            pg cascade, gate on q.rows  *)
(*   pgFilter  src/unnamed/part_001:1-193      pg cascade with filterRows  *)
(*   scopes    src/pages/api/claim-metrics.ts:1-82   fetchScope loop       *)
(*   supa      src/pages/api/claim-metrics.ts:84-217 exact-zip statistics  *)
(*                                                                         *)
(* Strings are sequences of one-character strings.  Amounts are held in    *)
(* cents; a reported number is the exact rational [num, den] in dollars.   *)
(* Every await of a handler is one action.                                 *)
(***************************************************************************)
EXTENDS Integers, Sequences, FiniteSets, TLC

\* ---------------------------------------------------------------- bounds
\* rows of the largest exact-zip block above MIN_N
MaxExtra == 3
\* zip_geometry entries that hold no claims, north of the query zip
NumFiller == 50

\* ------------------------------------------------------ program constants
MIN_N == 12
MAX_RADIUS_ZIPS == 50
\* LIMIT = Math.min(Math.max(Number(limit ?? 50), 1), 100)
DefaultLimit == 50

\* ---------------------------------------------------------------- strings
Digits == <<"0", "1", "2", "3", "4", "5", "6", "7", "8", "9">>

IsDigit(c) == \E i \in 1..10 : Digits[i] = c

\* String.prototype.trim on a sequence of characters
RECURSIVE TrimLeft(_)
TrimLeft(s) == IF s # <<>> /\ Head(s) = " " THEN TrimLeft(Tail(s)) ELSE s

RECURSIVE TrimRight(_)
TrimRight(s) ==
    IF s # <<>> /\ s[Len(s)] = " " THEN TrimRight(SubSeq(s, 1, Len(s) - 1)) ELSE s

Trim(s) == TrimRight(TrimLeft(s))

\* /^\d{lo,hi}$/.test(s)
DigitsBetween(s, lo, hi) ==
    /\ Len(s) >= lo
    /\ Len(s) <= hi
    /\ \A i \in 1..Len(s) : IsDigit(s[i])

\* zip.slice(0, 3)
Slice3(s) == SubSeq(s, 1, IF Len(s) < 3 THEN Len(s) ELSE 3)

\* the 5-character decimal form of n, 0 <= n < 100000
ZipOf(n) == [i \in 1..5 |-> Digits[((n \div (10 ^ (5 - i))) % 10) + 1]]

\* ---------------------------------------------------------------- numbers
\* a value of a numeric column as the driver hands it over
DbNum(c) == [k |-> "num", v |-> c]
DbNaN == [k |-> "nan", v |-> 0]
DbNull == [k |-> "null", v |-> 0]

\* Number(x): null is 0, "NaN" is NaN
Number(x) == [fin |-> x.k # "nan", v |-> IF x.k = "num" THEN x.v ELSE 0]

\* exact rationals, in dollars
Rat(n, d) == [num |-> n, den |-> d]
RatEq(a, b) == a.num * b.den = b.num * a.den
RatLe(a, b) == a.num * b.den <= b.num * a.den
Cents(c) == Rat(c, 100)

\* Math.round of a rational: floor(x + 1/2)
MathRound(x) == (2 * x.num + x.den) \div (2 * x.den)

\* ascending sort of a sequence of integers: sort((a, b) => a - b)
RECURSIVE Insert(_, _)
Insert(s, x) ==
    IF s = <<>> THEN <<x>>
    ELSE IF x < Head(s) THEN <<x>> \o s
    ELSE <<Head(s)>> \o Insert(Tail(s), x)

RECURSIVE SortAsc(_)
SortAsc(s) == IF s = <<>> THEN <<>> ELSE Insert(SortAsc(Tail(s)), Head(s))

RECURSIVE SeqSum(_)
SeqSum(s) == IF s = <<>> THEN 0 ELSE Head(s) + SeqSum(Tail(s))

\* the elements of a finite set of integers, ascending
RECURSIVE SetToSeq(_)
SetToSeq(S) ==
    IF S = {} THEN <<>>
    ELSE LET m == CHOOSE x \in S : \A y \in S : x <= y
         IN <<m>> \o SetToSeq(S \ {m})

\* ------------------------------------------------------------- statistics
\* a JSON null where a number may stand
Null == [isNull |-> TRUE, val |-> Rat(0, 1)]
Val(r) == [isNull |-> FALSE, val |-> r]

\* dollars(n) = Math.round(Number(n || 0)), n a finite amount in cents
dollars(c) == Rat(MathRound(Cents(c)), 1)

\* dollars of a Number(): NaN || 0 is 0
dollarsOf(n) == IF n.fin THEN dollars(n.v) ELSE Rat(0, 1)

\* dollars(sum / length)
dollarsMean(vals) == Rat(MathRound(Rat(SeqSum(vals), 100 * Len(vals))), 1)

\* filterRows with the min_paid comparison reversed (v > minPaid drops the row)
filterRowsAtMost(rows, excludeZero, minPaid) ==
    LET keep(r) ==
            LET v == Number(r.paid_amt)
            IN /\ v.fin
               /\ ~(excludeZero /\ v.v <= 0)
               /\ ~(v.v > minPaid)
    IN SelectSeq(rows, keep)

\* filterRows(rows, excludeZero, minPaid); minPaid in cents
filterRows(rows, excludeZero, minPaid) ==
    LET keep(r) ==
            LET v == Number(r.paid_amt)
            IN /\ v.fin
               /\ ~(excludeZero /\ v.v <= 0)
               /\ ~(v.v < minPaid)
    IN SelectSeq(rows, keep)

\* rows.map(r => Number(r.paid_amt)).filter(Number.isFinite).sort((a,b)=>a-b)
FiniteVals(rows) ==
    LET fin(r) == Number(r.paid_amt).fin
        kept == SelectSeq(rows, fin)
    IN SortAsc([i \in 1..Len(kept) |-> Number(kept[i].paid_amt).v])

\* idx(p) of summarize, as a 1-based position in vals
idx(p, n) ==
    LET f == (p * n) \div 100
        hi == IF f < n - 1 THEN f ELSE n - 1
    IN (IF hi > 0 THEN hi ELSE 0) + 1

\* byYear[y]: Number(r.paid_amt) of the rows of year y, in row order
YearVals(rows, y) ==
    LET of(r) == Number(r.dos_year).v = y
        kept == SelectSeq(rows, of)
    IN [i \in 1..Len(kept) |-> Number(kept[i].paid_amt)]

\* Object.keys(byYear): the years of the rows inside [y0, y1]
TrendYears(rows, y0, y1) ==
    {Number(rows[i].dos_year).v : i \in {j \in 1..Len(rows) :
        /\ Number(rows[j].dos_year).v >= y0
        /\ Number(rows[j].dos_year).v <= y1}}

\* dollars(arr[Math.floor(arr.length / 2)]) after arr.sort((a, b) => a - b).
\* With a NaN in arr the comparator is inconsistent and the order is
\* implementation-defined: any element may stand at the middle.
YearMedians(arr) ==
    IF \A i \in 1..Len(arr) : arr[i].fin
    THEN {dollars(SortAsc([i \in 1..Len(arr) |-> arr[i].v])[(Len(arr) \div 2) + 1])}
    ELSE {dollarsOf(arr[i]) : i \in 1..Len(arr)}

\* the possible values of trend over the years of order, ascending
RECURSIVE TrendsOver(_, _)
TrendsOver(rows, order) ==
    IF order = <<>> THEN {<<>>}
    ELSE LET rest == TrendsOver(rows, Tail(order))
         IN {<<[year |-> Head(order), median |-> m]>> \o t :
                m \in YearMedians(YearVals(rows, Head(order))), t \in rest}

\* Object.keys(byYear).map(...).sort((a, b) => a.year - b.year)
Trends(rows, y0, y1) == TrendsOver(rows, SetToSeq(TrendYears(rows, y0, y1)))

NoMeta == [representative_zip |-> <<>>, distance_miles |-> Null, state |-> ""]
NoMetrics ==
    [year_window |-> <<0, 0>>, mean |-> Null, median |-> Null, p25 |-> Null,
     p75 |-> Null, trend_by_year |-> <<>>, mean_per_wrvu |-> Null,
     median_per_wrvu |-> Null, ratio_sample_size |-> 0, n_vals |-> 0]

\* a JSON null body (summarize returned null)
NullBody ==
    [isNull |-> TRUE, query_zip |-> <<>>, level |-> "null", sample_size |-> 0,
     results |-> <<>>, meta |-> NoMeta, hasMetrics |-> FALSE, metrics |-> NoMetrics]

\* p75 of part_001: dollars[idx(75)] reads a property of the function
\* dollars, which is undefined, so the last value is reported
P75Last(vals) == dollars(vals[Len(vals)])

\* p75 of part_000: dollars(vals[idx(75)])
P75Idx(vals) == dollars(vals[idx(75, Len(vals))])

\* the body both summarize functions build, given the p75 each computes
SummaryBody(rows, vals, meta, zip, y0, y1, level, p75, trend) ==
    [isNull |-> FALSE, query_zip |-> zip, level |-> level,
     sample_size |-> Len(rows), results |-> <<>>, meta |-> meta, hasMetrics |-> TRUE,
     metrics |->
        [year_window |-> <<y0, y1>>,
         mean |-> Val(dollarsMean(vals)),
         median |-> Val(dollars(vals[(Len(vals) \div 2) + 1])),
         p25 |-> Val(dollars(vals[idx(25, Len(vals))])),
         p75 |-> Val(p75),
         trend_by_year |-> trend,
         mean_per_wrvu |-> Null, median_per_wrvu |-> Null, ratio_sample_size |-> 0,
         n_vals |-> Len(vals)]]

\* summarize of part_001: the set of values it may return
summarize(rows, meta, zip, y0, y1, level) ==
    LET vals == FiniteVals(rows)
    IN IF vals = <<>> THEN {NullBody}
       ELSE {SummaryBody(rows, vals, meta, zip, y0, y1, level, P75Last(vals), t) :
                t \in Trends(rows, y0, y1)}

\* summarize of part_000
summarizeRaw(rows, meta, zip, y0, y1, level) ==
    LET vals == FiniteVals(rows)
    IN IF vals = <<>> THEN {NullBody}
       ELSE {SummaryBody(rows, vals, meta, zip, y0, y1, level, P75Idx(vals), t) :
                t \in Trends(rows, y0, y1)}

\* ascending sort of a sequence of rationals
RECURSIVE InsertRat(_, _)
InsertRat(s, x) ==
    IF s = <<>> THEN <<x>>
    ELSE IF ~RatLe(Head(s), x) THEN <<x>> \o s
    ELSE <<Head(s)>> \o InsertRat(Tail(s), x)

RECURSIVE SortRat(_)
SortRat(s) == IF s = <<>> THEN <<>> ELSE InsertRat(SortRat(Tail(s)), Head(s))

RECURSIVE Gcd(_, _)
Gcd(a, b) == IF b = 0 THEN a ELSE Gcd(b, a % b)

\* the same rational in lowest terms
Reduce(x) ==
    LET g == Gcd(IF x.num < 0 THEN -x.num ELSE x.num, x.den)
    IN Rat(x.num \div g, x.den \div g)

RECURSIVE SumRat(_)
SumRat(s) ==
    IF s = <<>> THEN Rat(0, 1)
    ELSE LET t == SumRat(Tail(s))
         IN Reduce(Rat(Head(s).num * t.den + t.num * Head(s).den, Head(s).den * t.den))

\* sorted[lo] * (1 - w) + sorted[hi] * w with w = k / pd
Blend(a, b, k, pd) ==
    Rat(a.num * b.den * (pd - k) + b.num * a.den * k, a.den * b.den * pd)

\* pct(sorted, p) of the supabase handlers, p = pn / pd
pct(sorted, pn, pd) ==
    IF sorted = <<>> THEN Null
    ELSE IF pn <= 0 THEN Val(sorted[1])
    ELSE IF pn >= pd THEN Val(sorted[Len(sorted)])
    ELSE LET i == (Len(sorted) - 1) * pn
             lo == i \div pd
             w == i % pd
         IN IF w = 0 THEN Val(sorted[lo + 1])
            ELSE Val(Blend(sorted[lo + 1], sorted[lo + 2], w, pd))

median(s) == pct(s, 1, 2)

mean(a) ==
    IF a = <<>> THEN Null
    ELSE LET t == SumRat(a) IN Val(Rat(t.num, t.den * Len(a)))

\* ------------------------------------------------------------------ data
\* The tables the handlers read.  Locations: the query zip, a zip of the same
\* 3-digit prefix, a nearby zip of another prefix and state, a zip of the
\* query zip's state that ties for the last place among the nearest
\* MAX_RADIUS_ZIPS, and a far zip of another state.
ZipQ == ZipOf(10001)
ZipPref == ZipOf(10002)
ZipNear == ZipOf(10101)
ZipState == ZipOf(14901)
ZipFar == ZipOf(90001)
ZipFiller(i) == ZipOf(20000 + i)

Cpt == <<"9", "9", "2", "1", "3">>
Cpt4 == <<"9", "9", "2", "1">>
CptOther == <<"9", "9", "2", "1", "4">>

\* paid_amt of row i of a block: "dirty" blocks start with a NaN, a zero, a
\* negative and a NULL amount; "refund" blocks hold negative amounts only
AmtAt(pat, i, off) ==
    IF pat = "dirty" /\ i = 1 THEN DbNaN
    ELSE IF pat = "dirty" /\ i = 2 THEN DbNum(0)
    ELSE IF pat = "dirty" /\ i = 3 THEN DbNum(-250)
    ELSE IF pat = "dirty" /\ i = 4 THEN DbNull
    ELSE IF pat = "refund" THEN DbNum(-250)
    ELSE DbNum(1000 + 50 * i * i + off)

YearAt(i) == 2021 + (i % 5)

Block(zip, state, cpt, n, pat, off) ==
    [i \in 1..n |-> [zip5 |-> zip, state |-> state, cpt |-> cpt,
                     paid_amt |-> AmtAt(pat, i, off), dos_year |-> DbNum(YearAt(i))]]

\* rows no query of the modelled requests may return: another procedure
\* code, a year outside every window, a NULL year
Noise ==
    Block(ZipQ, "NY", CptOther, MIN_N \div 2, "plain", 0)
    \o [i \in 1..(MIN_N \div 2) |->
            [zip5 |-> ZipQ, state |-> "NY", cpt |-> Cpt,
             paid_amt |-> DbNum(100000 + i), dos_year |-> DbNum(2019)]]
    \o <<[zip5 |-> ZipQ, state |-> "NY", cpt |-> Cpt,
          paid_amt |-> DbNum(999900), dos_year |-> DbNull]>>

ClaimsTable(nE, nP, nN, nS, nF, pat) ==
    Block(ZipQ, "NY", Cpt, nE, pat, 0)
    \o Block(ZipPref, "NY", Cpt, nP, pat, 10)
    \o Block(ZipNear, "NJ", Cpt, nN, pat, 20)
    \o Block(ZipState, "NY", Cpt, nS, pat, 30)
    \o Block(ZipFar, "CA", Cpt, nF, pat, 40)
    \o Noise

Half == MIN_N \div 2
Big == MIN_N + MaxExtra

\* tables for the cascades with a geo index
ClaimsTables ==
    {ClaimsTable(nE, nP, nN, nS, nF, pat) :
        nE \in {0, Half, MIN_N, Big}, nP \in {0, Half, MIN_N}, nN \in {0, MIN_N},
        nS \in {0, MIN_N}, nF \in {0, MIN_N}, pat \in {"plain", "dirty"}}

\* single tables: 5 rows at the query zip and 15 more under its prefix;
\* MIN_N refunds at the query zip; MIN_N + 1 rows at the query zip, one of
\* them with a NULL amount and one with a NaN
ExtraTables ==
    {ClaimsTable(5, 15, 0, 0, 0, "plain"),
     ClaimsTable(MIN_N, 0, 0, 0, 0, "refund"),
     ClaimsTable(MIN_N + 1, 0, 0, 0, 0, "dirty")}

\* tables for the cascade without one
ScopesTables ==
    {ClaimsTable(nE, nP, 0, nS, nF, pat) :
        nE \in {0, Half, MIN_N}, nP \in {0, Half}, nS \in {0, MIN_N},
        nF \in {0, MIN_N}, pat \in {"plain", "dirty"}}

\* tables for the handlers that read the exact zip only
ExactTables ==
    {ClaimsTable(nE, 0, 0, 0, 0, pat) :
        nE \in {0, 1, Half, MIN_N, Big}, pat \in {"plain", "dirty"}}

\* zip_geometry: all entries on one meridian, so that the great-circle
\* distance between two of them is 3959 * radians(|lat1 - lat2|)
GeoOthers ==
    <<[zip5 |-> ZipPref, state |-> "NY", lat |-> 1, lon |-> 0],
      [zip5 |-> ZipNear, state |-> "NJ", lat |-> 2, lon |-> 0],
      [zip5 |-> ZipState, state |-> "NY", lat |-> 1 - MAX_RADIUS_ZIPS, lon |-> 0],
      [zip5 |-> ZipFar, state |-> "CA", lat |-> 80, lon |-> 0]>>
    \o [i \in 1..NumFiller |->
            [zip5 |-> ZipFiller(i), state |-> "PA", lat |-> i + 2, lon |-> 0]]

GeoTable(variant) ==
    IF variant = "absent" THEN GeoOthers
    ELSE IF variant = "nostate"
    THEN <<[zip5 |-> ZipQ, state |-> "NULL", lat |-> 0, lon |-> 0]>> \o GeoOthers
    ELSE <<[zip5 |-> ZipQ, state |-> "NY", lat |-> 0, lon |-> 0]>> \o GeoOthers

GeoVariants == {"present", "absent", "nostate"}

\* ----------------------------------------------------------------- state
VARIABLES
    claims,         \* the claims table
    zip_geometry,   \* the zip_geometry table
    rvu_master,     \* the rvu_master table
    proc,           \* per resolution: handler, request, position, locals, response
    pool            \* connections of the pg Pool that are checked out

vars == <<claims, zip_geometry, rvu_master, proc, pool>>

Resolutions == {1, 2}

\* --------------------------------------------------------------- queries
\* dos_year between y0 and y1 (a NULL year satisfies no predicate)
Between(y, y0, y1) == y.k = "num" /\ y.v >= y0 /\ y.v <= y1

\* where zip5 = $1 and cpt = $2 and dos_year between $3 and $4
QExact(zip, cpt, y0, y1) ==
    LET hit(r) == r.zip5 = zip /\ r.cpt = cpt /\ Between(r.dos_year, y0, y1)
    IN SelectSeq(claims, hit)

\* where substring(zip5,1,3) = $1 and cpt = $2 and dos_year between $3 and $4
QZip3(zip3, cpt, y0, y1) ==
    LET hit(r) == Slice3(r.zip5) = zip3 /\ r.cpt = cpt /\ Between(r.dos_year, y0, y1)
    IN SelectSeq(claims, hit)

\* select state, lat, lon from zip_geometry where zip5 = $1 limit 1
QGeo(zip) ==
    LET hit(g) == g.zip5 = zip
        found == SelectSeq(zip_geometry, hit)
    IN IF found = <<>> THEN <<>> ELSE <<found[1]>>

\* dist_mi between two entries of one meridian, in units of
\* 3959 * pi / 180 miles (one degree of latitude)
DistMi(lat, qlat) == IF lat >= qlat THEN lat - qlat ELSE qlat - lat

\* order by dist_mi asc limit n: every set of n entries no member of which
\* is farther than a non-member (the order among equidistant entries is not
\* specified)
Nearest(qlat, n) ==
    LET N == Len(zip_geometry)
        d(i) == DistMi(zip_geometry[i].lat, qlat)
        within(x) == {i \in 1..N : d(i) <= x}
    IN IF N <= n THEN {1..N}
       ELSE LET cut == CHOOSE x \in {d(i) : i \in 1..N} :
                            /\ Cardinality(within(x)) >= n
                            /\ Cardinality({i \in 1..N : d(i) < x}) < n
                closer == {i \in 1..N : d(i) < cut}
                tied == {i \in 1..N : d(i) = cut}
            IN {closer \cup T : T \in {U \in SUBSET tied :
                                        Cardinality(U) = n - Cardinality(closer)}}

\* nearest n join claims c on c.zip5 = n.zip5
\*   where c.cpt = $4 and c.dos_year between $5 and $6
QRadius(near, cpt, y0, y1) ==
    LET hit(r) == /\ \E i \in near : zip_geometry[i].zip5 = r.zip5
                  /\ r.cpt = cpt
                  /\ Between(r.dos_year, y0, y1)
    IN SelectSeq(claims, hit)

\* where state = $1 and cpt = $2 and dos_year between $3 and $4
QState(state, cpt, y0, y1) ==
    LET hit(r) == r.state = state /\ r.cpt = cpt /\ Between(r.dos_year, y0, y1)
    IN SelectSeq(claims, hit)

\* where cpt = $1 and dos_year between $2 and $3
QNational(cpt, y0, y1) ==
    LET hit(r) == r.cpt = cpt /\ Between(r.dos_year, y0, y1)
    IN SelectSeq(claims, hit)

\* -------------------------------------------------------------- requests
\* query parameters: a string is a sequence of characters, <<>> when the
\* parameter is absent; a number is 0 when the parameter is absent
Request(method, zip, cpt, debug, exclude_zero, min_paid, state) ==
    [method |-> method, zip |-> zip, cpt |-> cpt, year_from |-> 0, year_to |-> 0,
     debug |-> debug, exclude_zero |-> exclude_zero, min_paid |-> min_paid,
     state |-> state, ignoreZero |-> TRUE, limit |-> 0, afterId |-> 0]

\* String(req.query.zip || "").trim()
PZip(q) == Trim(q.zip)
PCpt(q) == Trim(q.cpt)
\* Number(req.query.year_from || "2021"), Number(req.query.year_to || "2025")
PY0(q) == IF q.year_from = 0 THEN 2021 ELSE q.year_from
PY1(q) == IF q.year_to = 0 THEN 2025 ELSE q.year_to

NoGeo == [found |-> FALSE, state |-> "NULL", lat |-> 0, lon |-> 0]
NoRes == [kind |-> "none", status |-> 0, error |-> "", detail |-> FALSE, body |-> NullBody]

Idle ==
    [handler |-> "none", req |-> Request("GET", <<>>, <<>>, FALSE, FALSE, 0, ""),
     pc |-> "idle", qgeo |-> NoGeo, near |-> {}, rows |-> <<>>, todo |-> <<>>,
     issued |-> <<>>,
     failed |-> FALSE,
     holds |-> FALSE, acquired |-> 0, released |-> 0, now |-> 0, res |-> NoRes]

Begin(handler, req) == [Idle EXCEPT !.handler = handler, !.req = req, !.pc = "start"]

\* ------------------------------------------------------------- responses
\* res.status(s).json(...) with an error body
Error(p, status, msg, detail) ==
    [p EXCEPT !.pc = "done",
              !.res = [kind |-> "json", status |-> status, error |-> msg,
                       detail |-> detail, body |-> NullBody]]

\* res.json(body)
Json(p, body) ==
    [p EXCEPT !.pc = "done",
              !.res = [kind |-> "json", status |-> 200, error |-> "",
                       detail |-> FALSE, body |-> body]]

\* res.status(s).end()
End(p, status) ==
    [p EXCEPT !.pc = "done",
              !.res = [kind |-> "end", status |-> status, error |-> "",
                       detail |-> FALSE, body |-> NullBody]]

\* { query_zip: zip, used_scope: { level: null, sample_size: 0 }, metrics: null }
NoDataBody(zip) == [NullBody EXCEPT !.isNull = FALSE, !.query_zip = zip]

\* ------------------------------------------------- pg handlers: plumbing
\* a query was sent on the client
Issue(p, label) == [p EXCEPT !.issued = Append(@, label)]

\* client.release()
Release(p) == [p EXCEPT !.holds = FALSE, !.released = @ + 1]

\* catch (e): 500 "server error", detail only with debug=1
Catch(p) == Error([p EXCEPT !.failed = TRUE], 500, "server error", p.req.debug)

\* a rejected await inside try { } finally { client.release() }, then catch
ThrownNoRelease(p) == Catch(p)
Thrown(p) == Catch(Release(p))

\* return res.json(body) inside try { } finally { client.release() }
Returned(p, body) == Release(Json(p, body))

\* the query result kept in a variable of the module: a step of one
\* invocation replaces the rows the other invocations were holding
StepShared(r, p) ==
    /\ proc' = [s \in DOMAIN proc |->
                    IF s = r THEN p ELSE [proc[s] EXCEPT !.rows = <<>>]]
    /\ pool' = pool + (p.acquired - proc[r].acquired) - (p.released - proc[r].released)
    /\ UNCHANGED <<claims, zip_geometry, rvu_master>>

\* the pool's checked-out count after resolution r moved from proc[r] to p
Step(r, p) ==
    /\ proc' = [proc EXCEPT ![r] = p]
    /\ pool' = pool + (p.acquired - proc[r].acquired) - (p.released - proc[r].released)
    /\ UNCHANGED <<claims, zip_geometry, rvu_master>>

\* what a scope's gate decided: accepted with a body, or not accepted
Accepted(bodies) == {[accepted |-> TRUE, body |-> b] : b \in bodies}
NotAccepted == {[accepted |-> FALSE, body |-> NullBody]}

\* if (!/^\d{5}$/.test(zip) || !/^\d{4,5}$/.test(cpt)) return 400
PgValid(zip, cpt) == DigitsBetween(zip, 5, 5) /\ DigitsBetween(cpt, 4, 5)

\* from the entry of a pg handler to the call of pool.connect()
PgStart(r, h) ==
    LET p == proc[r]
    IN /\ p.handler = h
       /\ p.pc = "start"
       /\ Step(r, IF p.req.method = "OPTIONS" THEN End(p, 200)
                  ELSE IF ~PgValid(PZip(p.req), PCpt(p.req))
                  THEN Error(p, 400, "bad params", FALSE)
                  ELSE [p EXCEPT !.pc = "connect"])

\* const client = await pool.connect(): outside the inner try
PgConnect(r, h) ==
    LET p == proc[r]
    IN /\ p.handler = h
       /\ p.pc = "connect"
       /\ \E ok \in BOOLEAN :
            Step(r, IF ok
                    THEN [p EXCEPT !.pc = "exact", !.holds = TRUE, !.acquired = @ + 1]
                    ELSE Catch(p))

\* one awaited scope query and the code up to the next await
PgScope(r, h, from, label, outcomes, next, near) ==
    LET p == proc[r]
        q == [Issue(p, label) EXCEPT !.near = IF label = "radius" THEN near ELSE @]
    IN /\ p.handler = h
       /\ p.pc = from
       /\ \E ok \in BOOLEAN, o \in outcomes :
            Step(r, IF ~ok THEN Thrown(q)
                    ELSE IF o.accepted THEN Returned(q, o.body)
                    ELSE IF next = "nodata" THEN Returned(q, NoDataBody(PZip(p.req)))
                    ELSE [q EXCEPT !.pc = next])

\* if (qgeo?.state) { state } else national
AfterRadius(g) == IF g.found /\ g.state # "NULL" THEN "state" ELSE "national"

\* if (qgeo) { radius } ...
AfterGeoAlwaysRadius(g) == "radius"
AfterGeo(g) == IF g.found THEN "radius" ELSE AfterRadius(g)

\* const zg = await client.query(...zip_geometry...); const qgeo = zg.rows[0]
PgGeo(r, h) ==
    LET p == proc[r]
        q == Issue(p, "geo")
        zg == QGeo(PZip(p.req))
        g == IF zg = <<>> THEN NoGeo
             ELSE [found |-> TRUE, state |-> zg[1].state, lat |-> zg[1].lat,
                   lon |-> zg[1].lon]
    IN /\ p.handler = h
       /\ p.pc = "geo"
       /\ \E ok \in BOOLEAN :
            Step(r, IF ok THEN [q EXCEPT !.qgeo = g, !.pc = AfterGeo(g)] ELSE Thrown(q))

\* ---------------------------------------------- part_001: pg with filters
\* runQuery: filter, gate on filtered.length, summarize; a null from
\* summarize is not returned (if (resObj) ...)
runQueryMerged(p, rows, level, meta) ==
    LET q == p.req
        merged == IF level = "zip" THEN rows
                  ELSE QExact(PZip(q), PCpt(q), PY0(q), PY1(q)) \o rows
        filtered == filterRows(merged, q.exclude_zero, q.min_paid)
        out == IF Len(filtered) >= MIN_N
               THEN summarize(filtered, meta, PZip(q), PY0(q), PY1(q), level)
               ELSE {NullBody}
    IN IF out = {NullBody} THEN NotAccepted ELSE Accepted(out)
runQuery(p, rows, level, meta) ==
    LET filtered == filterRows(rows, p.req.exclude_zero, p.req.min_paid)
        out == IF Len(filtered) >= MIN_N
               THEN summarize(filtered, meta, PZip(p.req), PY0(p.req), PY1(p.req), level)
               ELSE {NullBody}
    IN IF out = {NullBody} THEN NotAccepted ELSE Accepted(out)

MetaZip(zip) == [NoMeta EXCEPT !.representative_zip = zip]
MetaState(state) == [NoMeta EXCEPT !.state = state]

FltStart(r) == PgStart(r, "pgFilter")
FltConnect(r) == PgConnect(r, "pgFilter")

FltExact(r) ==
    LET q == proc[r].req
    IN PgScope(r, "pgFilter", "exact", "zip",
               runQuery(proc[r], QExact(PZip(q), PCpt(q), PY0(q), PY1(q)), "zip",
                        MetaZip(PZip(q))),
               "zip3", {})

FltZip3(r) ==
    LET q == proc[r].req
    IN PgScope(r, "pgFilter", "zip3", "zip3",
               runQuery(proc[r], QZip3(Slice3(PZip(q)), PCpt(q), PY0(q), PY1(q)), "zip3",
                        NoMeta),
               "geo", {})

FltGeo(r) == PgGeo(r, "pgFilter")

FltRadius(r) ==
    LET q == proc[r].req
    IN \E near \in Nearest(proc[r].qgeo.lat, MAX_RADIUS_ZIPS) :
         PgScope(r, "pgFilter", "radius", "radius",
                 runQuery(proc[r], QRadius(near, PCpt(q), PY0(q), PY1(q)), "radius",
                          MetaZip(PZip(q))),
                 AfterRadius(proc[r].qgeo), near)

FltState(r) ==
    LET q == proc[r].req
    IN PgScope(r, "pgFilter", "state", "state",
               runQuery(proc[r], QState(proc[r].qgeo.state, PCpt(q), PY0(q), PY1(q)),
                        "state", MetaState(proc[r].qgeo.state)),
               "national", {})

FltNational(r) ==
    LET q == proc[r].req
    IN PgScope(r, "pgFilter", "national", "national",
               runQuery(proc[r], QNational(PCpt(q), PY0(q), PY1(q)), "national", NoMeta),
               "nodata", {})

\* ------------------------------------------- part_000: pg without filters
\* if (q.rows.length >= MIN_N) return res.json(summarize(q.rows, ...))
rawGate(p, rows, level, meta) ==
    IF Len(rows) >= MIN_N
    THEN Accepted(summarizeRaw(rows, meta, PZip(p.req), PY0(p.req), PY1(p.req), level))
    ELSE NotAccepted

RawStart(r) == PgStart(r, "pgRaw")
RawConnect(r) == PgConnect(r, "pgRaw")

RawExact(r) ==
    LET q == proc[r].req
    IN PgScope(r, "pgRaw", "exact", "zip",
               rawGate(proc[r], QExact(PZip(q), PCpt(q), PY0(q), PY1(q)), "zip",
                       MetaZip(PZip(q))),
               "zip3", {})

RawZip3(r) ==
    LET q == proc[r].req
    IN PgScope(r, "pgRaw", "zip3", "zip3",
               rawGate(proc[r], QZip3(Slice3(PZip(q)), PCpt(q), PY0(q), PY1(q)), "zip3",
                       NoMeta),
               "geo", {})

RawGeo(r) == PgGeo(r, "pgRaw")

\* the radius query; an accepted sample waits for the representative zip
RawRadius(r) ==
    LET p == proc[r]
    IN /\ p.handler = "pgRaw"
       /\ p.pc = "radius"
       /\ \E ok \in BOOLEAN, near \in Nearest(p.qgeo.lat, MAX_RADIUS_ZIPS) :
            LET rows == QRadius(near, PCpt(p.req), PY0(p.req), PY1(p.req))
                q == [Issue(p, "radius") EXCEPT !.near = near]
            IN Step(r, IF ~ok THEN Thrown(q)
                       ELSE IF Len(rows) >= MIN_N THEN [q EXCEPT !.pc = "rep", !.rows = rows]
                       ELSE [q EXCEPT !.pc = AfterRadius(p.qgeo)])

\* rep.rows[0]?.zip5 || zip, rep.rows[0]?.dist_mi || null
RepMeta(rep, qlat, zip) ==
    IF rep = {} THEN [NoMeta EXCEPT !.representative_zip = zip]
    ELSE LET g == zip_geometry[CHOOSE i \in rep : TRUE]
             d == DistMi(g.lat, qlat)
         IN [NoMeta EXCEPT !.representative_zip = g.zip5,
                           !.distance_miles = IF d = 0 THEN Null ELSE Val(Rat(d, 1))]

\* the nearest single zip, then summarize the radius rows
RawRep(r) ==
    LET p == proc[r]
        q == Issue(p, "rep")
    IN /\ p.handler = "pgRaw"
       /\ p.pc = "rep"
       /\ \E ok \in BOOLEAN, rep \in Nearest(p.qgeo.lat, 1) :
            \E body \in summarizeRaw(p.rows, RepMeta(rep, p.qgeo.lat, PZip(p.req)),
                                     PZip(p.req), PY0(p.req), PY1(p.req), "radius") :
                Step(r, IF ok THEN Returned(q, body) ELSE Thrown(q))

RawState(r) ==
    LET q == proc[r].req
    IN PgScope(r, "pgRaw", "state", "state",
               rawGate(proc[r], QState(proc[r].qgeo.state, PCpt(q), PY0(q), PY1(q)),
                       "state", MetaState(proc[r].qgeo.state)),
               "national", {})

RawNational(r) ==
    LET q == proc[r].req
    IN PgScope(r, "pgRaw", "national", "national",
               rawGate(proc[r], QNational(PCpt(q), PY0(q), PY1(q)), "national", NoMeta),
               "nodata", {})

\* ------------------------- claim-metrics.ts:1-82: the fetchScope cascade
\* v_claim_metrics, taken to be the claims rows with their position as id
ViewRows ==
    [i \in 1..Len(claims) |->
        [id |-> i, org_id |-> "org_demo", zip |-> claims[i].zip5,
         zip3 |-> Slice3(claims[i].zip5), state |-> claims[i].state,
         cpt_code |-> claims[i].cpt, year |-> claims[i].dos_year,
         amount |-> claims[i].paid_amt]]

\* zipFallbacks(zip).zip5: zip.slice(0, 5)
Zip5Of(zip) == SubSeq(zip, 1, IF Len(zip) < 5 THEN Len(zip) ELSE 5)

\* Math.min(Math.max(Number(limit ?? 50), 1), 100)
LimitOf(q) ==
    LET n == IF q.limit = 0 THEN DefaultLimit ELSE q.limit
        lo == IF n > 1 THEN n ELSE 1
    IN IF lo < 100 THEN lo ELSE 100

\* numeric > 0 in the store: NaN sorts above every number, NULL fails
GtZero(x) == x.k = "nan" \/ (x.k = "num" /\ x.v > 0)

\* the scopes pushed before the loop
ScopeList(q) ==
    (IF Zip5Of(q.zip) # <<>> THEN <<"zip5">> ELSE <<>>)
    \o (IF Slice3(Zip5Of(q.zip)) # <<>> THEN <<"zip3">> ELSE <<>>)
    \o (IF q.state # "" THEN <<"state">> ELSE <<>>)
    \o <<"national">>

\* fetchScope(scope): the rows the built query returns
fetchScope(q, scope) ==
    LET zip5 == Zip5Of(q.zip)
        hit(v) ==
            /\ v.org_id = "org_demo"
            /\ q.cpt # <<>> => v.cpt_code = q.cpt
            /\ q.exclude_zero => GtZero(v.amount)
            /\ q.year_from # 0 => (v.year.k = "num" /\ v.year.v >= q.year_from)
            /\ q.year_to # 0 => (v.year.k = "num" /\ v.year.v <= q.year_to)
            /\ q.afterId # 0 => v.id > q.afterId
            /\ (scope = "zip5" /\ zip5 # <<>>) => v.zip = zip5
            /\ (scope = "zip3" /\ ~(scope = "zip5" /\ zip5 # <<>>) /\ Slice3(zip5) # <<>>)
                    => v.zip3 = Slice3(zip5)
            /\ (scope = "state" /\ q.state # "") => v.state = q.state
        all == SelectSeq(ViewRows, hit)
    IN SubSeq(all, 1, IF Len(all) < LimitOf(q) THEN Len(all) ELSE LimitOf(q))

\* res.status(200).json({ query_zip, used_scope, exclude_zero, pagination, results })
ScopesBody(q, usedScope, rows) ==
    [NullBody EXCEPT !.isNull = FALSE, !.query_zip = q.zip, !.level = usedScope,
                     !.results = rows]

ScStart(r) ==
    LET p == proc[r]
    IN /\ p.handler = "scopes"
       /\ p.pc = "start"
       /\ Step(r, [p EXCEPT !.pc = "fetch", !.todo = ScopeList(p.req)])

\* if (error) continue
OnFetchError(p) ==
    IF Len(p.todo) > 1 THEN [p EXCEPT !.todo = Tail(@)]
    ELSE Json(p, ScopesBody(p.req, "null", <<>>))

\* one turn of: for (const s of scopes) { const { data, error } = await fetchScope(s); ... }
ScFetch(r) ==
    LET p == proc[r]
        s == Head(p.todo)
        q == Issue(p, s)
        data == fetchScope(p.req, s)
    IN /\ p.handler = "scopes"
       /\ p.pc = "fetch"
       /\ \E ok \in BOOLEAN :
            Step(r, IF ~ok THEN OnFetchError([q EXCEPT !.failed = TRUE])
                    ELSE IF data # <<>> THEN Json(q, ScopesBody(p.req, s, data))
                    ELSE IF Len(q.todo) > 1 THEN [q EXCEPT !.todo = Tail(@)]
                    ELSE Json(q, ScopesBody(p.req, "null", <<>>)))

\* ------------------- claim-metrics.ts:84-217: exact-zip statistics handler
\* num(v): Number(v) when finite, else null
num(x) == [isNull |-> ~Number(x).fin, v |-> Number(x).v]

\* the rows the two loops over the claims keep
SupaKept(rows, ignoreZero) ==
    LET keep(r) ==
            /\ ~num(r.paid_amt).isNull
            /\ ~num(r.dos_year).isNull
            /\ ~(ignoreZero /\ num(r.paid_amt).v <= 0)
    IN SelectSeq(rows, keep)

\* byYear.get(y), in row order
SupaYearVals(kept, y) ==
    LET of(r) == num(r.dos_year).v = y
        ky == SelectSeq(kept, of)
    IN [i \in 1..Len(ky) |-> Cents(num(ky[i].paid_amt).v)]

\* Array.from(byYear.entries()).sort(...).map(([year, arr]) => ({ year, median }))
SupaTrend(kept) ==
    LET order == SetToSeq({num(kept[i].dos_year).v : i \in 1..Len(kept)})
    IN [i \in 1..Len(order) |->
            [year |-> order[i], median |-> median(SortRat(SupaYearVals(kept, order[i]))).val]]

\* wrvuByYear.get(y): the last entry set for y with yr && wr && wr > 0
Wrvu(rvu, y) ==
    LET ok(i) == /\ ~num(rvu[i].year).isNull /\ num(rvu[i].year).v # 0
                 /\ ~num(rvu[i].wrvu).isNull /\ num(rvu[i].wrvu).v > 0
                 /\ num(rvu[i].year).v = y
        hits == {i \in 1..Len(rvu) : ok(i)}
    IN IF hits = {} THEN 0
       ELSE num(rvu[CHOOSE i \in hits : \A j \in hits : j <= i].wrvu).v

\* ratios: amt / wr of the kept rows whose year has a wRVU
Ratios(kept, rvu) ==
    LET has(r) == Wrvu(rvu, num(r.dos_year).v) > 0
        kr == SelectSeq(kept, has)
    IN [i \in 1..Len(kr) |->
            Rat(num(kr[i].paid_amt).v, Wrvu(rvu, num(kr[i].dos_year).v))]

\* select cpt_code, year, wrvu from rvu_master where cpt_code = $cpt
\*   and year >= yStart and year <= yEnd limit 50
QRvu(cpt, y0, y1) ==
    LET hit(e) == e.cpt_code = cpt /\ Between(e.year, y0, y1)
        all == SelectSeq(rvu_master, hit)
    IN SubSeq(all, 1, IF Len(all) < 50 THEN Len(all) ELSE 50)

SupaBody(p, rvu) ==
    LET kept == SupaKept(p.rows, p.req.ignoreZero)
        sorted == SortRat([i \in 1..Len(kept) |-> Cents(num(kept[i].paid_amt).v)])
        rSorted == SortRat(Ratios(kept, rvu))
    IN [isNull |-> FALSE, query_zip |-> PZip(p.req), level |-> "zip",
        sample_size |-> Len(sorted), results |-> <<>>,
        meta |-> MetaZip(PZip(p.req)), hasMetrics |-> TRUE,
        metrics |->
            [year_window |-> <<p.now - 4, p.now>>,
             mean |-> mean(sorted),
             median |-> median(sorted),
             p25 |-> pct(sorted, 1, 4),
             p75 |-> pct(sorted, 3, 4),
             trend_by_year |-> SupaTrend(kept),
             mean_per_wrvu |-> mean(rSorted),
             median_per_wrvu |-> median(rSorted),
             ratio_sample_size |-> Len(rSorted),
             n_vals |-> Len(sorted)]]

\* if (!/^\d{5}$/.test(zip)) ...; if (!/^\d{5}$/.test(cpt)) ...
SupaStart(r) ==
    LET p == proc[r]
    IN /\ p.handler = "supa"
       /\ p.pc = "start"
       /\ Step(r, IF p.req.method = "OPTIONS" THEN End(p, 204)
                  ELSE IF p.req.method # "GET" THEN Error(p, 405, "Method not allowed", FALSE)
                  ELSE IF ~DigitsBetween(PZip(p.req), 5, 5)
                  THEN Error(p, 400, "zip must be 5 digits", FALSE)
                  ELSE IF ~DigitsBetween(PCpt(p.req), 5, 5)
                  THEN Error(p, 400, "cpt must be 5 digits", FALSE)
                  ELSE [p EXCEPT !.pc = "claims"])

\* const { data: rows, error: claimErr } = await supabase.from('claims')...
SupaClaims(r) ==
    LET p == proc[r]
        q == Issue(p, "zip")
    IN /\ p.handler = "supa"
       /\ p.pc = "claims"
       /\ \E ok \in BOOLEAN :
            Step(r, IF ok
                    THEN [q EXCEPT !.pc = "rvu",
                                   !.rows = QExact(PZip(p.req), PCpt(p.req), p.now - 4, p.now)]
                    ELSE Error([q EXCEPT !.failed = TRUE], 500, "db error", TRUE))

\* const { data: rvu, error: rvuErr } = await supabase.from('rvu_master')...
SupaRvu(r) ==
    LET p == proc[r]
        q == Issue(p, "rvu")
    IN /\ p.handler = "supa"
       /\ p.pc = "rvu"
       /\ \E ok \in BOOLEAN :
            Step(r, Json([q EXCEPT !.failed = ~ok],
                         SupaBody(p, IF ok THEN QRvu(PCpt(p.req), p.now - 4, p.now)
                                     ELSE <<>>)))

\* ------------------------------------------------------------------ Init
\* the request every table is tried with
BaseRequest(exclude_zero, min_paid) ==
    Request("GET", ZipQ, Cpt, FALSE, exclude_zero, min_paid, "")

\* requests tried against one table: malformed and padded codes, other
\* methods, the debug flag
BadZips ==
    {<<>>, <<"1", "0", "0", "0">>, <<"1", "0", "0", "0", "1", "2">>,
     <<"1", "0", "0", "0", "x">>, <<" ", "1", "0", "0", "0", "1", " ">>}
BadCpts == {<<>>, <<"9", "9", "2">>, <<"9", "9", "2", "1", "3", "0">>, <<"9", "9", "2", "1", "x">>}

OtherRequests ==
    {Request(m, z, c, d, FALSE, 0, "") :
        m \in {"GET", "OPTIONS", "POST"}, z \in BadZips \cup {ZipQ},
        c \in BadCpts \cup {Cpt, Cpt4}, d \in BOOLEAN}

OneTable == ClaimsTable(MIN_N, 0, 0, 0, 0, "plain")

\* new Date().getUTCFullYear()
CurrentYears == {2025, 2026}

Only(p) == [r \in Resolutions |-> IF r = 1 THEN p ELSE Idle]

InitPg ==
    \/ /\ claims \in ClaimsTables
       /\ \E v \in GeoVariants : zip_geometry = GeoTable(v)
       /\ \/ \E ez \in BOOLEAN, mp \in {0, 1500} :
                proc = Only(Begin("pgFilter", BaseRequest(ez, mp)))
          \/ proc = Only(Begin("pgRaw", BaseRequest(FALSE, 0)))
    \/ /\ claims = OneTable
       /\ zip_geometry = GeoTable("present")
       /\ \E h \in {"pgFilter", "pgRaw"}, q \in OtherRequests : proc = Only(Begin(h, q))
    \/ /\ claims \in ExtraTables
       /\ zip_geometry = GeoTable("present")
       /\ \/ \E mp \in {0, -1000} : proc = Only(Begin("pgFilter", BaseRequest(FALSE, mp)))
          \/ proc = Only(Begin("pgRaw", BaseRequest(FALSE, 0)))
    \/ /\ claims = OneTable
       /\ zip_geometry = GeoTable("present")
       /\ \E h \in {"pgFilter", "pgRaw"}, now \in CurrentYears :
            proc = Only([Begin(h, BaseRequest(FALSE, 0)) EXCEPT !.now = now])

RvuTable ==
    <<[cpt_code |-> Cpt, year |-> DbNum(2021), wrvu |-> DbNum(150)],
      [cpt_code |-> Cpt, year |-> DbNum(2022), wrvu |-> DbNum(0)],
      [cpt_code |-> Cpt, year |-> DbNum(2023), wrvu |-> DbNum(200)],
      [cpt_code |-> Cpt, year |-> DbNum(2024), wrvu |-> DbNull],
      [cpt_code |-> Cpt, year |-> DbNum(2025), wrvu |-> DbNum(120)],
      [cpt_code |-> CptOther, year |-> DbNum(2025), wrvu |-> DbNum(100)]>>

InitScopes ==
    /\ claims \in ScopesTables
    /\ zip_geometry = GeoTable("present")
    /\ \E ez \in BOOLEAN, st \in {"", "NY"}, z \in {ZipQ, <<>>} :
            proc = Only(Begin("scopes", Request("GET", z, Cpt, FALSE, ez, 0, st)))

InitSupa ==
    /\ zip_geometry = GeoTable("present")
    /\ \E now \in CurrentYears :
        \/ /\ claims \in ExactTables
           /\ \E iz \in BOOLEAN :
                proc = Only([Begin("supa", [BaseRequest(FALSE, 0) EXCEPT !.ignoreZero = iz])
                                EXCEPT !.now = now])
        \/ /\ claims = OneTable
           /\ \E q \in OtherRequests : proc = Only([Begin("supa", q) EXCEPT !.now = now])

Init ==
    /\ pool = 0
    /\ rvu_master = RvuTable
    /\ \/ InitPg
       \/ InitScopes
       \/ InitSupa

Next ==
    \E r \in Resolutions :
        \/ FltStart(r) \/ FltConnect(r) \/ FltExact(r) \/ FltZip3(r) \/ FltGeo(r)
        \/ FltRadius(r) \/ FltState(r) \/ FltNational(r)
        \/ RawStart(r) \/ RawConnect(r) \/ RawExact(r) \/ RawZip3(r) \/ RawGeo(r)
        \/ RawRadius(r) \/ RawRep(r) \/ RawState(r) \/ RawNational(r)
        \/ ScStart(r) \/ ScFetch(r)
        \/ SupaStart(r) \/ SupaClaims(r) \/ SupaRvu(r)

Spec == Init /\ [][Next]_vars

\* ------------------------------------------- two concurrent invocations
\* one table per outcome of the cascade: exact, prefix, radius, state (or
\* radius, by the tie), national, no data
ConcTables ==
    {ClaimsTable(MIN_N, 0, 0, 0, 0, "plain"), ClaimsTable(Half, Half, 0, 0, 0, "plain"),
     ClaimsTable(0, 0, MIN_N, 0, 0, "plain"), ClaimsTable(0, 0, 0, MIN_N, 0, "plain"),
     ClaimsTable(0, 0, 0, 0, MIN_N, "plain"), ClaimsTable(0, 0, 0, 0, 0, "plain")}

\* two requests in flight on one Pool and one store
InitConc ==
    /\ pool = 0
    /\ rvu_master = RvuTable
    /\ claims \in ConcTables
    /\ zip_geometry = GeoTable("present")
    /\ \E h \in {"pgFilter", "pgRaw"}, ez \in BOOLEAN, mp \in {0, 1500} :
            proc = [r \in Resolutions |->
                        IF r = 1 THEN Begin(h, BaseRequest(ez, 0))
                        ELSE Begin("pgFilter", BaseRequest(FALSE, mp))]

NextConc ==
    \E r \in Resolutions :
        \/ FltStart(r) \/ FltConnect(r) \/ FltExact(r) \/ FltZip3(r) \/ FltGeo(r)
        \/ FltRadius(r) \/ FltState(r) \/ FltNational(r)
        \/ RawStart(r) \/ RawConnect(r) \/ RawExact(r) \/ RawZip3(r) \/ RawGeo(r)
        \/ RawRadius(r) \/ RawRep(r) \/ RawState(r) \/ RawNational(r)

SpecConc == InitConc /\ [][NextConc]_vars

\* ---------------------------------------------------------------- claims
\* What the specification says of a resolution, stated over the tables, the
\* request and the response.
\* the request parameters the specification admits
SpecValid(q) == DigitsBetween(Trim(q.zip), 5, 5) /\ DigitsBetween(Trim(q.cpt), 4, 5)

IsPg(p) == p.handler = "pgFilter" \/ p.handler = "pgRaw"
IsCascade(p) == IsPg(p) \/ p.handler = "scopes"
Ok200(p) == p.pc = "done" /\ p.res.kind = "json" /\ p.res.status = 200
Issued(p, label) == \E i \in 1..Len(p.issued) : p.issued[i] = label
FailedAt(p, label) == p.failed /\ p.issued # <<>> /\ p.issued[Len(p.issued)] = label

\* RowFilter of the specification: rows with a missing or non-finite amount
\* or a missing year are dropped; then excludeNonPositive and minimumAmount,
\* as far as the handler takes them from the request
SpecFilter(p, rows) ==
    LET keep(r) ==
            /\ r.paid_amt.k = "num"
            /\ r.dos_year.k = "num"
            /\ (p.handler \in {"pgFilter", "scopes"} /\ p.req.exclude_zero) => r.paid_amt.v > 0
            /\ p.handler = "pgFilter" => r.paid_amt.v >= p.req.min_paid
            /\ (p.handler = "supa" /\ p.req.ignoreZero) => r.paid_amt.v > 0
    IN SelectSeq(rows, keep)

\* the rows of the claims table behind the rows of v_claim_metrics
ViewClaims(rows) == [i \in 1..Len(rows) |-> claims[rows[i].id]]

\* the scope candidates of a resolution in their fixed order, each with the
\* rows it matches before the row filter
Candidates(p) ==
    LET q == p.req
        geo == QGeo(PZip(q))
        raw == [q EXCEPT !.exclude_zero = FALSE]
    IN IF p.handler = "scopes"
       THEN LET list == ScopeList(q)
            IN [i \in 1..Len(list) |->
                    [level |-> list[i], rows |-> ViewClaims(fetchScope(raw, list[i]))]]
       ELSE <<[level |-> "zip", rows |-> QExact(PZip(q), PCpt(q), PY0(q), PY1(q))],
              [level |-> "zip3", rows |-> QZip3(Slice3(PZip(q)), PCpt(q), PY0(q), PY1(q))]>>
            \o (IF geo = <<>> THEN <<>>
                ELSE <<[level |-> "radius",
                        rows |-> QRadius(p.near, PCpt(q), PY0(q), PY1(q))],
                       [level |-> "state",
                        rows |-> QState(geo[1].state, PCpt(q), PY0(q), PY1(q))]>>)
            \o <<[level |-> "national", rows |-> QNational(PCpt(q), PY0(q), PY1(q))]>>

Qualifies(p, c) == Len(SpecFilter(p, c.rows)) >= MIN_N

\* the level of the first candidate whose filtered sample reaches MIN_N
FirstQualifying(p) ==
    LET c == Candidates(p)
        hits == {i \in 1..Len(c) : Qualifies(p, c[i])}
    IN IF hits = {} THEN "null" ELSE c[CHOOSE i \in hits : \A j \in hits : i <= j].level

\* the sample size a response reports (the result rows of the scopes handler)
ReportedSize(p) ==
    IF p.handler = "scopes" THEN Len(p.res.body.results) ELSE p.res.body.sample_size

\* C1: for a valid request the reported level is the first scope, in the order Exact, Prefix,
\* Radius, Region, National, whose filtered row count is at least MIN_N, and
\* no level is reported with a smaller sample.
C1_FirstQualifyingScope ==
    \A r \in Resolutions :
        LET p == proc[r]
        IN (IsCascade(p) /\ SpecValid(p.req) /\ Ok200(p) /\ ~p.failed) =>
                /\ ~p.res.body.isNull
                /\ p.res.body.level = FirstQualifying(p)
                /\ p.res.body.level # "null" => ReportedSize(p) >= MIN_N

\* C2: a failed scope query ends the resolution with an error response; the
\* resolver neither goes on to a broader scope nor answers no-data.
C2_FailureIsSurfaced ==
    \A r \in Resolutions :
        LET p == proc[r]
        IN (IsCascade(p) /\ SpecValid(p.req) /\ p.failed) =>
                (p.pc = "done" /\ p.res.status = 500)

\* the geo lookup of the query zip completed and returned no row
GeoMissed(p) == IsPg(p) /\ Issued(p, "geo") /\ ~FailedAt(p, "geo") /\ ~p.qgeo.found

\* C3: once the geo lookup has returned no row (Exact and Prefix were under
\* MIN_N), no radius, representative-zip or state query is issued, the next
\* query is the national one, and the level is national or none.
C3_GeoMissSkipsRadiusAndRegion ==
    \A r \in Resolutions :
        LET p == proc[r]
        IN GeoMissed(p) =>
                /\ ~Issued(p, "radius") /\ ~Issued(p, "rep") /\ ~Issued(p, "state")
                /\ p.pc \in {"national", "done"}
                /\ p.pc = "done" => Issued(p, "national")
                /\ Ok200(p) => p.res.body.level \in {"national", "null"}

C3_Witness ==
    \E r \in Resolutions :
        LET p == proc[r]
        IN /\ GeoMissed(p)
           /\ Ok200(p)
           /\ p.res.body.level = "national"
           /\ p.issued = <<"zip", "zip3", "geo", "national">>

\* the no-data response: level null, sample size 0, metrics null
NoDataOutcome(p) ==
    /\ Ok200(p)
    /\ ~p.res.body.isNull
    /\ p.res.body.level = "null"
    /\ p.res.body.sample_size = 0
    /\ ~p.res.body.hasMetrics

\* C4: a resolution that reached the store answers no-data exactly when no
\* query failed and every scope has fewer than MIN_N filtered rows.
C4_NoDataIffAllUnder ==
    \A r \in Resolutions :
        LET p == proc[r]
        IN (IsPg(p) /\ p.pc = "done" /\ p.req.method # "OPTIONS" /\ p.res.status # 400) =>
                (NoDataOutcome(p) <=> (~p.failed /\ FirstQualifying(p) = "null"))

\* the candidate a response names
Named(p) ==
    LET c == Candidates(p)
    IN c[CHOOSE i \in 1..Len(c) : c[i].level = p.res.body.level]

\* C5: an accepted scope has at least MIN_N rows after the row filter, and
\* the reported sample size and the statistics count exactly those rows.
C5_GateOnFilteredRows ==
    \A r \in Resolutions :
        LET p == proc[r]
        IN (IsPg(p) /\ Ok200(p) /\ p.res.body.hasMetrics) =>
                LET n == Len(SpecFilter(p, Named(p).rows))
                IN /\ n >= MIN_N
                   /\ p.res.body.sample_size = n
                   /\ p.res.body.metrics.n_vals = n

\* C6: a resolution acquires at most one connection, holds it while it
\* queries, and has released it exactly once when it ends, whatever the exit.
C6_ReleasedExactlyOnce ==
    /\ pool = Cardinality({r \in Resolutions : proc[r].holds})
    /\ \A r \in Resolutions :
        LET p == proc[r]
        IN /\ p.released <= p.acquired
           /\ p.acquired <= 1
           /\ p.holds <=> p.acquired = p.released + 1
           /\ (IsPg(p) /\ p.pc \notin {"idle", "start", "connect", "done"}) => p.holds
           /\ (IsPg(p) /\ p.issued # <<>>) => p.acquired = 1
           /\ p.pc = "done" => (~p.holds /\ p.released = p.acquired)

C6_Witness ==
    \E r \in Resolutions :
        LET p == proc[r]
        IN /\ IsPg(p)
           /\ p.pc = "done"
           /\ FailedAt(p, "state")
           /\ p.acquired = 1
           /\ p.released = 1
           /\ pool = 0

\* a 400 sent before any connection or query
Rejected(p) ==
    /\ p.pc = "done"
    /\ p.res.status = 400
    /\ p.issued = <<>>
    /\ p.acquired = 0

\* C7: a GET request is rejected with a 400, before any data access, exactly
\* when its zip is not 5 digits or its procedure code is not 4 to 5 digits;
\* every other request goes on to the store.
C7_RejectedIffMalformed ==
    \A r \in Resolutions :
        LET p == proc[r]
        IN (p.handler \in {"pgFilter", "pgRaw", "supa"} /\ p.req.method = "GET"
                /\ p.pc # "start") =>
                (Rejected(p) <=> ~SpecValid(p.req))

\* Percentile(p) of the specification, p = pn / pd, on an ascending sequence:
\* index (n - 1) * p, blended between the floor and the ceiling order
\* statistics by the fractional part
LinearPercentile(a, pn, pd) ==
    LET i == (Len(a) - 1) * pn
        lo == i \div pd
        w == i % pd
        x == a[lo + 1]
        y == a[IF w = 0 THEN lo + 1 ELSE lo + 2]
    IN Rat(x.num * y.den * (pd - w) + y.num * x.den * w, x.den * y.den * pd)

\* rounding to the nearest currency unit, half away from zero
RoundHalfAway(x) ==
    IF x.num >= 0 THEN (2 * x.num + x.den) \div (2 * x.den)
    ELSE 0 - ((2 * (0 - x.num) + x.den) \div (2 * x.den))

\* a reported number stands for x, exactly or rounded for display
Shows(r, x) == ~r.isNull /\ (RatEq(r.val, x) \/ RatEq(r.val, Rat(RoundHalfAway(x), 1)))

\* the amounts of rows, ascending, in currency units
Amounts(rows) == SortRat([i \in 1..Len(rows) |-> Cents(rows[i].paid_amt.v)])

\* the filtered rows of the scope a response with metrics reports
Sample(p) ==
    IF p.handler = "supa"
    THEN SpecFilter(p, QExact(PZip(p.req), PCpt(p.req), p.now - 4, p.now))
    ELSE SpecFilter(p, Named(p).rows)

\* a response whose statistics were computed over exactly the filtered rows
\* of the reported scope
HasStats(p) ==
    /\ p.handler \in {"pgFilter", "pgRaw", "supa"}
    /\ Ok200(p)
    /\ p.res.body.hasMetrics
    /\ Sample(p) # <<>>
    /\ p.res.body.metrics.n_vals = Len(Sample(p))

\* C8: the reported p25 and p75 are the linear-interpolation percentiles of
\* the ascending filtered amounts of the accepted sample.
C8_QuartilesInterpolated ==
    \A r \in Resolutions :
        LET p == proc[r]
        IN HasStats(p) =>
                /\ Shows(p.res.body.metrics.p25, LinearPercentile(Amounts(Sample(p)), 1, 4))
                /\ Shows(p.res.body.metrics.p75, LinearPercentile(Amounts(Sample(p)), 3, 4))

\* C9: the reported median is Percentile(0.5) of the accepted sample: the
\* middle amount for an odd count, the average of the two middle amounts
\* for an even count.
C9_MedianInterpolated ==
    \A r \in Resolutions :
        LET p == proc[r]
        IN HasStats(p) =>
                Shows(p.res.body.metrics.median, LinearPercentile(Amounts(Sample(p)), 1, 2))

\* the filtered rows of one service year
YearRows(rows, y) ==
    LET of(r) == r.dos_year.v = y
    IN SelectSeq(rows, of)

\* C10: trend_by_year has one entry for each service year of the window with
\* a filtered row, ascending by year, and the median of an entry is
\* Percentile(0.5) of the filtered rows of its year.
C10_TrendByYear ==
    \A r \in Resolutions :
        LET p == proc[r]
        IN HasStats(p) =>
                LET t == p.res.body.metrics.trend_by_year
                    w == p.res.body.metrics.year_window
                    years == {Sample(p)[i].dos_year.v : i \in 1..Len(Sample(p))}
                IN /\ {t[i].year : i \in 1..Len(t)} = years
                   /\ \A i \in 1..Len(t) : t[i].year >= w[1] /\ t[i].year <= w[2]
                   /\ \A i \in 1..(Len(t) - 1) : t[i].year < t[i + 1].year
                   /\ \A i \in 1..Len(t) :
                        RatEq(t[i].median,
                              LinearPercentile(Amounts(YearRows(Sample(p), t[i].year)), 1, 2))
                        \/ RatEq(t[i].median,
                                 Rat(RoundHalfAway(LinearPercentile(
                                        Amounts(YearRows(Sample(p), t[i].year)), 1, 2)), 1))

\* the rows of the reported scope's own query, after the filter the handler
\* applies to the rows of a query
OwnRows(p) ==
    IF p.handler = "pgFilter"
    THEN filterRows(Named(p).rows, p.req.exclude_zero, p.req.min_paid)
    ELSE Named(p).rows

\* C11: the sample size and the statistics of an accepted scope come from the
\* rows of that scope's own query alone; the rows of a rejected narrower
\* scope are not merged in.
C11_ScopesNotMerged ==
    \A r \in Resolutions :
        LET p == proc[r]
        IN (IsPg(p) /\ Ok200(p) /\ p.res.body.hasMetrics) =>
                /\ p.res.body.sample_size = Len(OwnRows(p))
                /\ p.res.body.metrics.n_vals = Len(FiniteVals(OwnRows(p)))
                /\ RatEq(p.res.body.metrics.mean.val, dollarsMean(FiniteVals(OwnRows(p))))

\* Exact yields 5 rows, Prefix yields 20: level zip3 over the 20 rows
C11_Witness ==
    \E r \in Resolutions :
        LET p == proc[r]
            q == p.req
        IN /\ p.handler = "pgFilter"
           /\ Ok200(p)
           /\ Len(QExact(PZip(q), PCpt(q), PY0(q), PY1(q))) = 5
           /\ Len(QZip3(Slice3(PZip(q)), PCpt(q), PY0(q), PY1(q))) = 20
           /\ p.res.body.level = "zip3"
           /\ p.res.body.sample_size = 20
           /\ p.res.body.metrics.n_vals = 20

\* C12: an accepted Radius scope reports the one location of the geo index
\* nearest to the query location, with its distance in miles.
C12_RepresentativeIsNearest ==
    \A r \in Resolutions :
        LET p == proc[r]
            meta == p.res.body.meta
        IN (IsPg(p) /\ Ok200(p) /\ p.res.body.level = "radius") =>
                \E rep \in Nearest(p.qgeo.lat, 1) : \E i \in rep :
                    /\ meta.representative_zip = zip_geometry[i].zip5
                    /\ ~meta.distance_miles.isNull
                    /\ RatEq(meta.distance_miles.val,
                             Rat(DistMi(zip_geometry[i].lat, p.qgeo.lat), 1))

\* the unit values > 0 the reference table holds for a procedure code and year
RefUnits(cpt, y) ==
    {rvu_master[i].wrvu.v : i \in {j \in 1..Len(rvu_master) :
        /\ rvu_master[j].cpt_code = cpt
        /\ rvu_master[j].year.k = "num" /\ rvu_master[j].year.v = y
        /\ rvu_master[j].wrvu.k = "num" /\ rvu_master[j].wrvu.v > 0}}

\* amount / unitValue of the filtered rows that have a reference entry
RefRatios(p) ==
    LET has(r) == RefUnits(PCpt(p.req), r.dos_year.v) # {}
        rows == SelectSeq(Sample(p), has)
    IN SortRat([i \in 1..Len(rows) |->
            Rat(rows[i].paid_amt.v, CHOOSE u \in RefUnits(PCpt(p.req), rows[i].dos_year.v) : TRUE)])

\* equality of two rationals, each taken in lowest terms
SameRat(a, b) == Reduce(a) = Reduce(b)

\* C13: when both queries succeed, the ratio sample is amount / unitValue of
\* exactly the filtered rows with a reference entry whose unit value is > 0,
\* the primary sample keeps every filtered row, and the ratio sample is not
\* larger than the primary one.
C13_RatioSample ==
    \A r \in Resolutions :
        LET p == proc[r]
            m == p.res.body.metrics
        IN (p.handler = "supa" /\ Ok200(p) /\ ~p.failed) =>
                /\ p.res.body.sample_size = Len(Sample(p))
                /\ m.ratio_sample_size = Len(RefRatios(p))
                /\ m.ratio_sample_size <= p.res.body.sample_size
                /\ RefRatios(p) # <<>> =>
                        /\ ~m.median_per_wrvu.isNull
                        /\ SameRat(m.median_per_wrvu.val, LinearPercentile(RefRatios(p), 1, 2))

\* C14: a response carries the store's error message only if the request set
\* the debug flag.
C14_DetailOnlyWithDebug ==
    \A r \in Resolutions :
        LET p == proc[r]
        IN (p.pc = "done" /\ p.res.detail) => p.req.debug

\* C15: the reported mean is the average of the filtered amounts, rounded
\* once, half away from zero.
C15_MeanRoundedHalfAway ==
    \A r \in Resolutions :
        LET p == proc[r]
        IN (IsPg(p) /\ HasStats(p)) =>
                LET t == SumRat(Amounts(Sample(p)))
                    avg == Rat(t.num, t.den * Len(Sample(p)))
                IN SameRat(p.res.body.metrics.mean.val, Rat(RoundHalfAway(avg), 1))

\* the rows of the reported scope's query, before any filter
ScopeRows(p) ==
    IF p.handler = "supa" THEN QExact(PZip(p.req), PCpt(p.req), p.now - 4, p.now)
    ELSE Named(p).rows

\* the rows with a finite amount and a finite service year
WellFormed(rows) ==
    LET ok(r) == r.paid_amt.k = "num" /\ r.dos_year.k = "num"
    IN SelectSeq(rows, ok)

\* C16: rows with a missing or non-finite amount or year count neither
\* toward the MIN_N gate nor toward the sample size nor toward a statistic.
C16_MalformedRowsDropped ==
    \A r \in Resolutions :
        LET p == proc[r]
        IN (p.handler \in {"pgFilter", "pgRaw", "supa"} /\ Ok200(p) /\ p.res.body.hasMetrics) =>
                /\ p.res.body.sample_size <= Len(WellFormed(ScopeRows(p)))
                /\ p.res.body.metrics.n_vals <= Len(WellFormed(ScopeRows(p)))
                /\ IsPg(p) => Len(WellFormed(ScopeRows(p))) >= MIN_N

\* C17: without yearFrom/yearTo the window of the response is the five years
\* ending at the current year (now: the year at the time of the request).
C17_RollingWindow ==
    \A r \in Resolutions :
        LET p == proc[r]
        IN (/\ p.handler \in {"pgFilter", "pgRaw", "supa"}
            /\ p.now # 0
            /\ p.req.year_from = 0 /\ p.req.year_to = 0
            /\ Ok200(p) /\ p.res.body.hasMetrics) =>
                p.res.body.metrics.year_window = <<p.now - 4, p.now>>

\* the meta a pg handler attaches to a level
MetasOf(p, level) ==
    IF level = "zip" THEN {MetaZip(PZip(p.req))}
    ELSE IF level = "state" THEN {MetaState(p.qgeo.state)}
    ELSE IF level # "radius" THEN {NoMeta}
    ELSE IF p.handler = "pgFilter" THEN {MetaZip(PZip(p.req))}
    ELSE {RepMeta(rep, p.qgeo.lat, PZip(p.req)) : rep \in Nearest(p.qgeo.lat, 1)}

\* what the handler's gate makes of one candidate
GateOf(p, c) ==
    UNION {IF p.handler = "pgFilter" THEN runQuery(p, c.rows, c.level, meta)
           ELSE rawGate(p, c.rows, c.level, meta) : meta \in MetasOf(p, c.level)}

\* the bodies a resolution answers when it runs alone and no query fails:
\* those of the first candidate from position i on that its gate accepts
RECURSIVE AloneFrom(_, _, _)
AloneFrom(p, c, i) ==
    IF i > Len(c) THEN {NoDataBody(PZip(p.req))}
    ELSE LET o == {x \in GateOf(p, c[i]) : x.accepted}
         IN IF o = {} THEN AloneFrom(p, c, i + 1) ELSE {x.body : x \in o}

AloneBodies(p) == AloneFrom(p, Candidates(p), 1)

\* C18: with two resolutions interleaved on one store and one Pool, each
\* answers what it answers alone, and the connections checked out are those
\* of the resolutions between acquire and release.
C18_Independent ==
    /\ pool = Cardinality({r \in Resolutions : proc[r].holds})
    /\ \A r \in Resolutions :
        LET p == proc[r]
        IN /\ (IsPg(p) /\ p.pc = "done" /\ p.issued # <<>> /\ ~p.failed) =>
                    (Ok200(p) /\ p.res.body \in AloneBodies(p))
           /\ p.pc = "done" => ~p.holds

\* one resolution has answered from its radius rows while the other, with
\* another request, is in its cascade and holds a connection
C18_Witness ==
    \E r \in Resolutions, s \in Resolutions :
        /\ r # s
        /\ proc[r].handler = "pgRaw"
        /\ Ok200(proc[r])
        /\ proc[r].res.body.level = "radius"
        /\ proc[s].req # proc[r].req
        /\ proc[s].holds
        /\ proc[s].issued # <<>>
        /\ pool = 1

\* C19: a 200 answer of a cascade handler that is not the no-data envelope
\* reports an accepted scope, and is then complete: a body, a level, metrics,
\* and a sample size equal to the number of amounts behind the statistics.
C19_CompleteEnvelope ==
    \A r \in Resolutions :
        LET p == proc[r]
        IN (/\ IsPg(p) /\ Ok200(p) /\ p.issued # <<>>
            /\ p.res.body # NoDataBody(PZip(p.req))) =>
                /\ ~p.res.body.isNull
                /\ p.res.body.hasMetrics
                /\ p.res.body.level # "null"
                /\ p.res.body.sample_size = p.res.body.metrics.n_vals

\* the values of min_paid the requests carry, in cents
MinPaids == {-1000, 0, 1500}

\* the requests that differ from q by a looser value filter
Looser(q) ==
    {[q EXCEPT !.exclude_zero = ez, !.min_paid = mp] :
        ez \in {e \in BOOLEAN : e => q.exclude_zero},
        mp \in {m \in MinPaids : m <= q.min_paid}}

\* the position of a level in the order Exact, Prefix, Radius, Region,
\* National, none
Rank(level) ==
    CASE level = "zip" -> 1 [] level = "zip3" -> 2 [] level = "radius" -> 3
      [] level = "state" -> 4 [] level = "national" -> 5 [] OTHER -> 6

\* C20: against any looser value filter on the same store and request, no
\* scope has a larger filtered sample and the resolved level is not narrower.
C20_FilterMonotone ==
    \A r \in Resolutions :
        LET p == proc[r]
        IN (p.handler = "pgFilter" /\ Ok200(p) /\ p.issued # <<>>) =>
            \A q \in Looser(p.req) :
                LET c == Candidates(p)
                IN /\ \A i \in 1..Len(c) :
                        Len(filterRows(c[i].rows, p.req.exclude_zero, p.req.min_paid))
                            <= Len(filterRows(c[i].rows, q.exclude_zero, q.min_paid))
                   /\ \A b \in AloneBodies([p EXCEPT !.req = q]) :
                        Rank(p.res.body.level) >= Rank(b.level)

\* a resolution whose filter moved it to a broader level than a looser
\* filter resolves to
C20_Witness ==
    \E r \in Resolutions :
        LET p == proc[r]
        IN /\ p.handler = "pgFilter" /\ Ok200(p) /\ p.issued # <<>>
           /\ \E q \in Looser(p.req) :
                \E b \in AloneBodies([p EXCEPT !.req = q]) :
                    Rank(p.res.body.level) > Rank(b.level)

====
